---- MODULE Spec2Model ----
(***************************************************************************)
(* Model of python/notebooks/10-multiple-results-per-prompt.ipynb.         *)
(*                                                                         *)
(* The notebook is a sequence of code cells run in order in one kernel.    *)
(* A cell runs atomically up to its next await; an awaited request either  *)
(* returns or raises.  An exception aborts the cell that raised it; the    *)
(* front end then either stops the run (Run All) or the user goes on with  *)
(* the next cell.                                                          *)
(*                                                                         *)
(* Text is a sequence of characters, so that += is \o and a prefix is a    *)
(* SubSeq.  Time is counted in half seconds, the unit of clear_interval.   *)
(***************************************************************************)
EXTENDS Integers, Sequences, FiniteSets, TLC

VARIABLES
    selectedService,   \* the service chosen in the selection cell
    pc,                \* the code cell that runs next / is running
    at,                \* position inside the cell
    names,             \* names bound in the kernel's namespace
    inflight,          \* requests issued and not yet returned
    issued,            \* every request issued so far, in order
    results,           \* value of the global `results`
    out,               \* output area of the cell that runs or ran last
    failed,            \* exception that cell raised, or "none"
    texts,             \* streaming cell: the accumulator list
    last_clear_time,   \* streaming cell
    now,               \* what time.time() returns
    arrived,           \* batches the stream has yielded, in order
    processed,         \* batches the loop body has handled, in order
    start_time,        \* time sampled before the loop
    redraw_times,      \* time sampled in each iteration that redrew
    stream             \* "none", "open", "ended", "failed"

vars == <<selectedService, pc, at, names, inflight, issued, results, out,
          failed, texts, last_clear_time, now, arrived, processed, start_time,
          redraw_times, stream>>

streamVars ==
    <<texts, last_clear_time, arrived, processed, start_time, redraw_times, stream>>

----------------------------------------------------------------------------
(* Bounds of the model *)

MaxResults == 2      \* most results a non-streaming request returns
MaxBatches == 2      \* most batches a stream yields
MaxTime == 4         \* the clock stops advancing here (half seconds)

----------------------------------------------------------------------------
(* Program constants *)

number_of_responses == 3

clear_interval == 1  \* 0.5 seconds, in half seconds

OpenAI == "OpenAI"
AzureOpenAI == "AzureOpenAI"
HuggingFace == "HuggingFace"

Service == {OpenAI, AzureOpenAI, HuggingFace}

CellOrder ==
    << "imports", "services", "text_settings", "oai_text", "az_text",
       "hf_settings", "hf_text", "chat_settings", "oai_chat",
       "az_chat_settings", "az_chat", "streaming" >>

RECURSIVE IndexOf(_, _, _)
IndexOf(s, x, k) ==
    IF k > Len(s) THEN 0
    ELSE IF s[k] = x THEN k ELSE IndexOf(s, x, k + 1)

NextCell(c) ==
    LET k == IndexOf(CellOrder, c, 1)
    IN  IF k = Len(CellOrder) THEN "done" ELSE CellOrder[k + 1]

----------------------------------------------------------------------------
(* Values the services return *)

Alphabet == << "a", "b", "c", "d", "e" >>

Char(k) == Alphabet[(k % Len(Alphabet)) + 1]

\* the j-th completion of a response: a one-character text that tells j
Completion(j) == << Char(j - 1) >>

TextResults(k) == [j \in 1..k |-> Completion(j)]

\* a chat result is a tuple whose element 0 is the text
ChatResults(k) == [j \in 1..k |-> << Completion(j), <<>> >>]

\* a batch may be empty, cover some slots, all of them, or hold one chunk more
MaxBatchLen == number_of_responses + 1

\* a batch of len chunks; rot tells two batches of one length apart
Batch(rot, len) == [j \in 1..len |-> << Char(j - 1 + rot) >>]

Batches == { Batch(rot, len) : rot \in 0..1, len \in 0..MaxBatchLen }

----------------------------------------------------------------------------
(* Printing *)

ResultLine(i, text) == [kind |-> "result", label |-> i, text |-> text]

SeparatorLine == [kind |-> "separator", label |-> 0, text |-> <<>>]

RECURSIVE Join(_)
Join(rs) == IF rs = <<>> THEN <<>> ELSE Head(rs) \o Join(Tail(rs))

JoinedLine(rs) == [kind |-> "joined", label |-> 0, text |-> Join(rs)]

\* mutant: the i += 1 is missing
RECURSIVE PrintTextResults_NoIncrement(_, _, _)
PrintTextResults_NoIncrement(rs, i, printed) ==
    IF rs = <<>> THEN printed
    ELSE PrintTextResults_NoIncrement(Tail(rs), i,
                                      Append(printed, ResultLine(i, Head(rs))))

\* i = start; for result in results: print(f"Result {i}: {result}"); i += 1
RECURSIVE PrintTextResults(_, _, _)
PrintTextResults(rs, i, printed) ==
    IF rs = <<>> THEN printed
    ELSE PrintTextResults(Tail(rs), i + 1,
                          Append(printed, ResultLine(i, Head(rs))))

\* i = start; for result in results: print(f"Result {i}: {result[0]}"); i += 1
RECURSIVE PrintChatResults(_, _, _)
PrintChatResults(rs, i, printed) ==
    IF rs = <<>> THEN printed
    ELSE PrintChatResults(Tail(rs), i + 1,
                          Append(printed, ResultLine(i, Head(rs)[1])))

TextStart == 1

ChatStart == 0

----------------------------------------------------------------------------
(* The streaming cell's loop body *)

\* mutant: texts[idx] = result, the chunk replaces the slot
AddResult_Overwrite(t, idx, result) ==
    IF idx < number_of_responses
    THEN [t EXCEPT ![idx + 1] = result]
    ELSE t

\* mutant: no idx guard, a list that grows to take the chunk
AddResult_Unguarded(t, idx, result) ==
    IF idx < Len(t)
    THEN [t EXCEPT ![idx + 1] = @ \o result]
    ELSE Append(t, result)

\* if idx < number_of_responses: texts[idx] += result     (idx counts from 0)
AddResult(t, idx, result) ==
    IF idx < number_of_responses
    THEN [t EXCEPT ![idx + 1] = @ \o result]
    ELSE t

\* for idx, result in enumerate(results): ...
RECURSIVE UpdateTexts(_, _, _)
UpdateTexts(t, rs, idx) ==
    IF idx >= Len(rs) THEN t
    ELSE UpdateTexts(AddResult(t, idx, rs[idx + 1]), rs, idx + 1)

\* mutant: >= in place of >
ShouldClear_AtLeast(current_time, last) == current_time - last >= clear_interval

\* if current_time - last_clear_time > clear_interval
ShouldClear(current_time, last) == current_time - last > clear_interval

\* for idx, text in enumerate(texts): print(f"Result {idx + 1}: {text}")
RECURSIVE PrintTexts(_, _, _)
PrintTexts(t, idx, printed) ==
    IF idx >= Len(t) THEN printed
    ELSE PrintTexts(t, idx + 1, Append(printed, ResultLine(idx + 1, t[idx + 1])))

\* clear_output(wait=True), then the prints
Redraw(t) == PrintTexts(t, 0, <<>>)

----------------------------------------------------------------------------
(* Names each cell needs and binds *)

OpenAIImports ==
    { "OpenAITextRequestSettings", "OpenAIChatRequestSettings",
      "AzureChatRequestSettings", "AzureTextCompletion", "AzureChatCompletion",
      "OpenAITextCompletion", "OpenAIChatCompletion" }

HuggingFaceImports == { "HuggingFaceTextCompletion" }

\* the import cell
Imported(svc) ==
    (IF svc = OpenAI \/ svc = AzureOpenAI THEN OpenAIImports ELSE {})
    \cup (IF svc = HuggingFace THEN HuggingFaceImports ELSE {})

\* the cell that constructs the services: names read, names bound
ServicesUses(svc) ==
    (IF svc = AzureOpenAI THEN {"AzureTextCompletion", "AzureChatCompletion"} ELSE {})
    \cup (IF svc = OpenAI THEN {"OpenAITextCompletion", "OpenAIChatCompletion"} ELSE {})
    \cup (IF svc = HuggingFace THEN {"HuggingFaceTextCompletion"} ELSE {})

ServicesBinds(svc) ==
    (IF svc = AzureOpenAI THEN {"azure_text_service", "azure_chat_service"} ELSE {})
    \cup (IF svc = OpenAI THEN {"oai_text_service", "oai_chat_service"} ELSE {})
    \cup (IF svc = HuggingFace THEN {"hf_text_service"} ELSE {})

Request(kind, client, svc) == [kind |-> kind, client |-> client, service |-> svc]

\* the request each requesting cell makes, on the client it names
CellRequest(cell) ==
    CASE cell = "oai_text"  -> Request("text", "oai_text_service", OpenAI)
      [] cell = "az_text"   -> Request("text", "azure_text_service", AzureOpenAI)
      [] cell = "hf_text"   -> Request("text", "hf_text_service", HuggingFace)
      [] cell = "oai_chat"  -> Request("chat", "oai_chat_service", OpenAI)
      [] cell = "az_chat"   -> Request("chat", "azure_chat_service", AzureOpenAI)
      [] cell = "streaming" -> Request("stream", "oai_text_service", OpenAI)

----------------------------------------------------------------------------
(* Steps common to the cells *)

\* the cell ends normally: the next cell is run
Finish(cell) == pc' = NextCell(cell) /\ at' = "idle"

\* the cell raises: it is aborted where it stands
Raise(cell, exc) ==
    /\ at' = "raised"
    /\ pc' = cell
    /\ failed' = exc

\* a cell without a request: it reads `uses` and binds `binds`
RunSetup(cell, uses, binds) ==
    /\ pc = cell /\ at = "idle"
    /\ IF uses \subseteq names
       THEN /\ names' = names \cup binds
            /\ Finish(cell)
            /\ failed' = "none"
       ELSE /\ Raise(cell, "NameError")
            /\ UNCHANGED names
    /\ out' = <<>>
    /\ UNCHANGED <<selectedService, inflight, issued, results, now>>
    /\ UNCHANGED streamVars

\* mutant: the call is not awaited, the cell ends with the request in flight
RunRequest_NoAwait(cell, settings) ==
    /\ pc = cell /\ at = "idle"
    /\ IF selectedService # CellRequest(cell).service
       THEN UNCHANGED <<inflight, issued>>
       ELSE /\ inflight' = inflight \cup {CellRequest(cell)}
            /\ issued' = Append(issued, CellRequest(cell))
    /\ Finish(cell)
    /\ failed' = "none"
    /\ out' = <<>>
    /\ UNCHANGED <<selectedService, names, results, now>>
    /\ UNCHANGED streamVars

\* a cell `if selectedService == svc: results = await client.<call>(settings)`:
\* the part up to the await
RunRequest(cell, settings) ==
    /\ pc = cell /\ at = "idle"
    /\ IF selectedService # CellRequest(cell).service
       THEN /\ Finish(cell)
            /\ failed' = "none"
            /\ UNCHANGED <<inflight, issued>>
       ELSE IF ~({CellRequest(cell).client, settings} \subseteq names)
       THEN /\ Raise(cell, "NameError")
            /\ UNCHANGED <<inflight, issued>>
       ELSE /\ inflight' = inflight \cup {CellRequest(cell)}
            /\ issued' = Append(issued, CellRequest(cell))
            /\ at' = "await"
            /\ pc' = cell
            /\ failed' = "none"
    /\ out' = <<>>
    /\ UNCHANGED <<selectedService, names, results, now>>
    /\ UNCHANGED streamVars

----------------------------------------------------------------------------
(* The cells *)

Init ==
    /\ selectedService \in Service
    /\ pc = "imports"
    /\ at = "idle"
    /\ names = {}
    /\ inflight = {}
    /\ issued = <<>>
    /\ results = <<>>
    /\ out = <<>>
    /\ failed = "none"
    /\ texts = <<>>
    /\ last_clear_time = 0
    /\ now = 0
    /\ arrived = <<>>
    /\ processed = <<>>
    /\ start_time = 0
    /\ redraw_times = <<>>
    /\ stream = "none"

ImportsCell == RunSetup("imports", {}, Imported(selectedService))

ServicesCell ==
    RunSetup("services", ServicesUses(selectedService), ServicesBinds(selectedService))

TextSettingsCell ==
    RunSetup("text_settings", {"OpenAITextRequestSettings"}, {"oai_text_request_settings"})

OaiTextCell ==
    RunRequest("oai_text", "oai_text_request_settings")

AzTextCell ==
    RunRequest("az_text", "oai_text_request_settings")

HfSettingsCell ==
    RunSetup("hf_settings", {},
             IF selectedService = HuggingFace THEN {"hf_request_settings"} ELSE {})

HfTextCell ==
    RunRequest("hf_text", "hf_request_settings")

ChatSettingsCell ==
    RunSetup("chat_settings", {"OpenAIChatRequestSettings"}, {"oai_chat_request_settings"})

OaiChatCell ==
    RunRequest("oai_chat", "oai_chat_request_settings")

AzChatSettingsCell ==
    RunSetup("az_chat_settings", {"AzureChatRequestSettings"}, {"az_oai_request_settings"})

AzChatCell ==
    RunRequest("az_chat", "az_oai_request_settings")

\* the awaited text completion returns k results; the cell prints them
TextReturns ==
    /\ pc \in {"oai_text", "az_text"} /\ at = "await"
    /\ \E k \in 0..MaxResults :
         /\ results' = TextResults(k)
         /\ out' = PrintTextResults(TextResults(k), TextStart, out)
    /\ inflight' = inflight \ {CellRequest(pc)}
    /\ names' = names \cup {"results"}
    /\ Finish(pc)
    /\ UNCHANGED <<selectedService, issued, failed, now>>
    /\ UNCHANGED streamVars

\* the Hugging Face completion returns; the cell prints "".join(results)
HfReturns ==
    /\ pc = "hf_text" /\ at = "await"
    /\ \E k \in 0..MaxResults :
         /\ results' = TextResults(k)
         /\ out' = Append(out, JoinedLine(TextResults(k)))
    /\ inflight' = inflight \ {CellRequest(pc)}
    /\ names' = names \cup {"results"}
    /\ Finish(pc)
    /\ UNCHANGED <<selectedService, issued, failed, now>>
    /\ UNCHANGED streamVars

\* the awaited chat completion returns k results; the cell prints them
ChatReturns ==
    /\ pc \in {"oai_chat", "az_chat"} /\ at = "await"
    /\ \E k \in 0..MaxResults :
         /\ results' = ChatResults(k)
         /\ out' = PrintChatResults(ChatResults(k), ChatStart, out)
    /\ inflight' = inflight \ {CellRequest(pc)}
    /\ names' = names \cup {"results"}
    /\ Finish(pc)
    /\ UNCHANGED <<selectedService, issued, failed, now>>
    /\ UNCHANGED streamVars

\* the awaited completion raises (authentication, rate limit, network)
RequestFails ==
    /\ pc \in {"oai_text", "az_text", "hf_text", "oai_chat", "az_chat"}
    /\ at = "await"
    /\ inflight' = inflight \ {CellRequest(pc)}
    /\ Raise(pc, "ServiceError")
    /\ UNCHANGED <<selectedService, names, issued, results, out, now>>
    /\ UNCHANGED streamVars

\* after an exception the run stops (Run All) ...
StopOnError ==
    /\ at = "raised"
    /\ pc' = "halted"
    /\ at' = "idle"
    /\ UNCHANGED <<selectedService, names, inflight, issued, results, out, failed, now>>
    /\ UNCHANGED streamVars

\* ... or the next cell is run by hand
ContinueAfterError ==
    /\ at = "raised"
    /\ Finish(pc)
    /\ UNCHANGED <<selectedService, names, inflight, issued, results, out, failed, now>>
    /\ UNCHANGED streamVars

----------------------------------------------------------------------------
(* The streaming cell *)

\* the cell up to its first await, the `async for`: the stream is opened
\* with the first request for a batch
StreamingCell ==
    /\ pc = "streaming" /\ at = "idle"
    /\ IF selectedService # OpenAI
       THEN /\ Finish("streaming")
            /\ failed' = "none"
            /\ UNCHANGED <<names, inflight, issued>>
            /\ UNCHANGED streamVars
       ELSE IF ~({"oai_text_service", "oai_text_request_settings"} \subseteq names)
       THEN /\ Raise("streaming", "NameError")
            /\ UNCHANGED <<names, inflight, issued>>
            /\ UNCHANGED streamVars
       ELSE /\ names' = names \cup {"stream", "texts", "last_clear_time"}
            /\ texts' = [idx \in 1..number_of_responses |-> <<>>]
            /\ last_clear_time' = now
            /\ start_time' = now
            /\ inflight' = inflight \cup {CellRequest("streaming")}
            /\ issued' = Append(issued, CellRequest("streaming"))
            /\ stream' = "open"
            /\ at' = "next"
            /\ pc' = "streaming"
            /\ failed' = "none"
            /\ UNCHANGED <<arrived, processed, redraw_times>>
    /\ out' = <<>>
    /\ UNCHANGED <<selectedService, results, now>>

\* the stream yields a batch: `results` is bound to it
StreamYields ==
    /\ pc = "streaming" /\ at = "next"
    /\ Len(arrived) < MaxBatches
    /\ \E batch \in Batches :
         /\ results' = batch
         /\ arrived' = Append(arrived, batch)
    /\ names' = names \cup {"results"}
    /\ at' = "body"
    /\ UNCHANGED <<selectedService, pc, inflight, issued, out, failed, now,
                   texts, last_clear_time, processed, start_time,
                   redraw_times, stream>>

\* mutant: the redraw is followed by a break out of the loop
LoopBody_BreakAfterRedraw ==
    /\ pc = "streaming" /\ at = "body"
    /\ LET current_time == now
           updated == UpdateTexts(texts, results, 0)
       IN  /\ texts' = updated
           /\ IF ShouldClear(current_time, last_clear_time)
              THEN /\ out' = Append(Redraw(updated), SeparatorLine)
                   /\ last_clear_time' = current_time
                   /\ redraw_times' = Append(redraw_times, current_time)
                   /\ Finish("streaming")
              ELSE /\ at' = "next"
                   /\ UNCHANGED <<pc, out, last_clear_time, redraw_times>>
    /\ processed' = Append(processed, results)
    /\ UNCHANGED <<selectedService, names, inflight, issued, results,
                   failed, now, arrived, start_time, stream>>

\* mutant: the display comes before the update of texts
LoopBody_DisplayThenUpdate ==
    /\ pc = "streaming" /\ at = "body"
    /\ LET current_time == now
       IN  /\ IF ShouldClear(current_time, last_clear_time)
              THEN /\ out' = Redraw(texts)
                   /\ last_clear_time' = current_time
                   /\ redraw_times' = Append(redraw_times, current_time)
              ELSE UNCHANGED <<out, last_clear_time, redraw_times>>
           /\ texts' = UpdateTexts(texts, results, 0)
    /\ processed' = Append(processed, results)
    /\ at' = "next"
    /\ UNCHANGED <<selectedService, pc, names, inflight, issued, results,
                   failed, now, arrived, start_time, stream>>

\* one iteration of the loop body
LoopBody ==
    /\ pc = "streaming" /\ at = "body"
    /\ LET current_time == now
           updated == UpdateTexts(texts, results, 0)
       IN  /\ texts' = updated
           /\ IF ShouldClear(current_time, last_clear_time)
              THEN /\ out' = Redraw(updated)
                   /\ last_clear_time' = current_time
                   /\ redraw_times' = Append(redraw_times, current_time)
              ELSE UNCHANGED <<out, last_clear_time, redraw_times>>
    /\ processed' = Append(processed, results)
    /\ at' = "next"
    /\ UNCHANGED <<selectedService, pc, names, inflight, issued, results,
                   failed, now, arrived, start_time, stream>>

\* the stream is exhausted: the loop ends and the separator is printed
StreamEnds ==
    /\ pc = "streaming" /\ at = "next"
    /\ stream' = "ended"
    /\ inflight' = inflight \ {CellRequest("streaming")}
    /\ out' = Append(out, SeparatorLine)
    /\ Finish("streaming")
    /\ UNCHANGED <<selectedService, names, issued, results, failed, now,
                   texts, last_clear_time, arrived, processed, start_time,
                   redraw_times>>

\* mutant: the exception is caught and dropped, the cell goes on to its end
StreamFails_Swallowed ==
    /\ pc = "streaming" /\ at = "next"
    /\ stream' = "failed"
    /\ inflight' = inflight \ {CellRequest("streaming")}
    /\ out' = Append(out, SeparatorLine)
    /\ Finish("streaming")
    /\ UNCHANGED <<selectedService, names, issued, results, failed, now,
                   texts, last_clear_time, arrived, processed, start_time,
                   redraw_times>>

\* the stream raises while the loop waits for a batch
StreamFails ==
    /\ pc = "streaming" /\ at = "next"
    /\ stream' = "failed"
    /\ inflight' = inflight \ {CellRequest("streaming")}
    /\ Raise("streaming", "ServiceError")
    /\ UNCHANGED <<selectedService, names, issued, results, out, now,
                   texts, last_clear_time, arrived, processed, start_time,
                   redraw_times>>

\* time passes before and while the streaming cell runs
Tick ==
    /\ pc = "streaming" /\ at \in {"idle", "next", "body"}
    /\ now < MaxTime
    /\ now' = now + 1
    /\ UNCHANGED <<selectedService, pc, at, names, inflight, issued, results,
                   out, failed>>
    /\ UNCHANGED streamVars

\* time.time() is the wall clock: it can be set back while the cell runs
ClockSetBack ==
    /\ pc = "streaming" /\ at \in {"idle", "next", "body"}
    /\ now > 0
    /\ now' = now - 1
    /\ UNCHANGED <<selectedService, pc, at, names, inflight, issued, results,
                   out, failed>>
    /\ UNCHANGED streamVars

----------------------------------------------------------------------------

Next ==
    \/ ImportsCell
    \/ ServicesCell
    \/ TextSettingsCell
    \/ OaiTextCell
    \/ AzTextCell
    \/ HfSettingsCell
    \/ HfTextCell
    \/ ChatSettingsCell
    \/ OaiChatCell
    \/ AzChatSettingsCell
    \/ AzChatCell
    \/ TextReturns
    \/ HfReturns
    \/ ChatReturns
    \/ RequestFails
    \/ StopOnError
    \/ ContinueAfterError
    \/ StreamingCell
    \/ StreamYields
    \/ LoopBody
    \/ StreamEnds
    \/ StreamFails
    \/ Tick
    \/ ClockSetBack

Spec == Init /\ [][Next]_vars

\* the kernel's event loop resumes the cell once its batch has arrived
FairSpec == Spec /\ WF_vars(LoopBody)

----------------------------------------------------------------------------
(* Operators the properties are stated with *)

IsPrefix(p, q) == Len(p) <= Len(q) /\ SubSeq(q, 1, Len(p)) = p

\* the chunk a batch holds for slot k (slots counted from 1), if any
ChunkAt(batch, k) == IF k <= Len(batch) THEN batch[k] ELSE <<>>

\* the chunks of slot k of the batches bs, concatenated in order
RECURSIVE SlotText(_, _)
SlotText(bs, k) ==
    IF bs = <<>> THEN <<>> ELSE ChunkAt(Head(bs), k) \o SlotText(Tail(bs), k)

Slots == 1..number_of_responses

RECURSIVE SumLen(_)
SumLen(ss) == IF ss = <<>> THEN 0 ELSE Len(Head(ss)) + SumLen(Tail(ss))

\* the characters of the batches bs that sit at a position below number_of_responses
RECURSIVE KeptLen(_)
KeptLen(bs) ==
    IF bs = <<>> THEN 0
    ELSE SumLen(SubSeq(Head(bs), 1,
                       IF Len(Head(bs)) < number_of_responses
                       THEN Len(Head(bs)) ELSE number_of_responses))
         + KeptLen(Tail(bs))

SeparatorCount == Cardinality({j \in 1..Len(out) : out[j] = SeparatorLine})

\* the text the output area shows under "Result <label>", nothing when no such line
ShownText(label) ==
    LET at_ == {j \in 1..Len(out) : out[j].kind = "result" /\ out[j].label = label}
    IN  IF at_ = {} THEN <<>> ELSE out[CHOOSE j \in at_ : TRUE].text

RequestCells == {"oai_text", "az_text", "hf_text", "oai_chat", "az_chat", "streaming"}

Count(seq, x) == Cardinality({j \in 1..Len(seq) : seq[j] = x})

\* this step is an iteration of the streaming loop
IsIteration ==
    pc = "streaming" /\ at = "body" /\ processed' = Append(processed, results)

\* this step redraws
IsRedraw == redraw_times' # redraw_times

\* cell c has just run to its end, request included
AfterCell(c) ==
    /\ pc = NextCell(c) /\ at = "idle" /\ failed = "none"
    /\ issued # <<>> /\ issued[Len(issued)] = CellRequest(c)

----------------------------------------------------------------------------
(* C1: texts starts as number_of_responses empty strings, and after any
   sequence of batches the loop has consumed, texts[i] is the concatenation,
   in arrival order, of the chunk at position i of each batch that has a
   position i; a shorter batch leaves the other slots as they were. *)
C1_Accumulation ==
    stream # "none" =>
        /\ Len(texts) = number_of_responses
        /\ \A k \in Slots : texts[k] = SlotText(processed, k)

C1_Witness ==
    /\ stream = "open" /\ Len(processed) = 2
    /\ Len(processed[1]) \in 1..(number_of_responses - 1)
    /\ Len(processed[2]) >= number_of_responses
    /\ processed[1][1] # processed[2][1]
    /\ texts[1] = processed[1][1] \o processed[2][1]

(* C2: a redraw happens in an iteration iff the time sampled in it exceeds
   last_clear_time by strictly more than clear_interval; last_clear_time is
   set before the loop and to the sampled time on each redraw, so the first
   redraw is more than clear_interval after the start of the loop and two
   consecutive redraws are more than clear_interval apart; a redraw happens
   only in an iteration, which a batch triggers. *)
C2_Gaps ==
    /\ \A j \in 1..Len(redraw_times) :
         redraw_times[j] - (IF j = 1 THEN start_time ELSE redraw_times[j - 1])
             > clear_interval
    /\ stream # "none" =>
         last_clear_time = IF redraw_times = <<>> THEN start_time
                           ELSE redraw_times[Len(redraw_times)]

C2_Step ==
    /\ IsRedraw => IsIteration
    /\ IsIteration => (IsRedraw <=> now - last_clear_time > clear_interval)
    /\ IsRedraw =>
         /\ redraw_times' = Append(redraw_times, now)
         /\ last_clear_time' = now
         /\ Len(out') = number_of_responses
         /\ \A k \in Slots : out'[k] = ResultLine(k, texts'[k])
    /\ (stream = "none" /\ stream' = "open") =>
         (last_clear_time' = now /\ start_time' = now)

C2_Throttle == []C2_Gaps /\ [][C2_Step]_vars

C2_Witness ==
    /\ Len(redraw_times) = 2
    /\ Len(processed) = 2
    /\ stream = "open"

(* C3: when the stream is exhausted and the separator is printed, the output
   shows for every slot the complete accumulated text texts[i]. *)
C3_FinalOutputComplete ==
    stream = "ended" => \A k \in Slots : ShownText(k) = texts[k]

(* C4: at most one request is outstanding at any time; a cell starts only
   when no request is outstanding, and while the stream is open the stream's
   request is the only one. *)
C4_SingleOutstanding ==
    /\ Cardinality(inflight) <= 1
    /\ at \in {"idle", "raised"} => inflight = {}
    /\ inflight # {} => inflight = {CellRequest(pc)}
    /\ stream = "open" => inflight = {CellRequest("streaming")}

C4_Witness ==
    /\ stream = "open" /\ at = "body"
    /\ Len(issued) = 3
    /\ inflight = {CellRequest("streaming")}

(* C5: a failure propagates and nothing is retried: the cell whose request
   failed has printed nothing and no request is issued twice; when the stream
   fails after k batches the loop stops there, texts holds the accumulation
   of those k batches, nothing is redrawn afterwards and the separator is
   not printed. *)
C5_State ==
    /\ \A c \in RequestCells : Count(issued, CellRequest(c)) <= 1
    /\ (failed = "ServiceError" /\ stream # "failed") =>
         (out = <<>> /\ inflight = {})
    /\ stream = "failed" =>
         /\ failed = "ServiceError"
         /\ inflight = {}
         /\ processed = arrived
         /\ \A k \in Slots : texts[k] = SlotText(arrived, k)
         /\ SeparatorCount = 0
         /\ pc \in {"streaming", "halted", "done"}

C5_Step ==
    (failed = "ServiceError" /\ at = "raised") =>
        UNCHANGED <<issued, inflight, out, texts, processed, redraw_times>>

C5_FailurePropagates == []C5_State /\ [][C5_Step]_vars

C5_Witness ==
    /\ stream = "failed" /\ at = "raised"
    /\ Len(arrived) = 2
    /\ Len(redraw_times) = 1

(* C6: the selected service decides the requests of a run of all cells:
   OpenAI one text, one chat and one streaming completion in that order,
   AzureOpenAI one text then one chat completion, HuggingFace one text
   completion; each on the selected service. *)
ExpectedRequests(svc) ==
    CASE svc = OpenAI      -> << [kind |-> "text", service |-> OpenAI],
                                 [kind |-> "chat", service |-> OpenAI],
                                 [kind |-> "stream", service |-> OpenAI] >>
      [] svc = AzureOpenAI -> << [kind |-> "text", service |-> AzureOpenAI],
                                 [kind |-> "chat", service |-> AzureOpenAI] >>
      [] svc = HuggingFace -> << [kind |-> "text", service |-> HuggingFace] >>

IssuedRequests ==
    [j \in 1..Len(issued) |-> [kind |-> issued[j].kind, service |-> issued[j].service]]

\* the run is over and no failed request cut it short
RunEnded == pc = "done" \/ (pc = "halted" /\ failed # "ServiceError")

C6_RequestsByService ==
    RunEnded => IssuedRequests = ExpectedRequests(selectedService)

(* C7: a text completion cell prints one line per result, in order, labelled
   1..k; a chat completion cell prints one line per result, in order,
   labelled 0..k-1; a redraw labels slot idx as idx + 1. *)
C7_ResultLines ==
    /\ \A c \in {"oai_text", "az_text"} :
         AfterCell(c) =>
           /\ Len(out) = Len(results)
           /\ \A j \in 1..Len(results) : out[j] = ResultLine(j, results[j])
    /\ \A c \in {"oai_chat", "az_chat"} :
         AfterCell(c) =>
           /\ Len(out) = Len(results)
           /\ \A j \in 1..Len(results) : out[j] = ResultLine(j - 1, results[j][1])
    /\ (stream = "open" /\ redraw_times # <<>>) =>
           /\ Len(out) = number_of_responses
           /\ \A idx \in 0..(number_of_responses - 1) :
                out[idx + 1].kind = "result" /\ out[idx + 1].label = idx + 1

C7_Witness ==
    /\ AfterCell("oai_text")
    /\ Len(results) = MaxResults
    /\ Len(out) = MaxResults

(* C8: a stream that ends without error: every batch is processed once, in
   arrival order; the loop ends only when the stream does; the separator is
   printed once, last, after every batch and every redraw; and a batch that
   has arrived is processed. *)
C8_State ==
    /\ stream # "none" =>
         /\ IsPrefix(processed, arrived)
         /\ Len(arrived) - Len(processed) =
              IF pc = "streaming" /\ at = "body" THEN 1 ELSE 0
    /\ SeparatorCount > 0 => stream = "ended"
    /\ stream = "ended" =>
         /\ processed = arrived
         /\ \A k \in Slots : texts[k] = SlotText(arrived, k)
         /\ SeparatorCount = 1
         /\ out[Len(out)] = SeparatorLine
         /\ inflight = {}
         /\ pc = "done"

C8_Step ==
    stream = "ended" =>
        UNCHANGED <<out, texts, arrived, processed, redraw_times>>

C8_Termination ==
    /\ []C8_State
    /\ [][C8_Step]_vars
    /\ (pc = "streaming" /\ at = "body") ~> (Len(processed) = Len(arrived))

C8_Witness ==
    /\ stream = "ended"
    /\ Len(arrived) = 2
    /\ Len(redraw_times) = 2

(* C9: texts has number_of_responses entries in every state of the loop; a
   chunk at a position idx >= number_of_responses is dropped: it changes no
   slot and raises nothing. *)
C9_SlotCount ==
    stream # "none" =>
        /\ Len(texts) = number_of_responses
        /\ SumLen(texts) = KeptLen(processed)
        /\ (pc = "streaming" /\ at \in {"next", "body"}) => failed = "none"

C9_Witness ==
    /\ stream = "open" /\ at = "next"
    /\ \E j \in 1..Len(processed) : Len(processed[j]) > number_of_responses

(* C10: a redraw shows texts as it is after the batch of its iteration and
   changes no text; only a redraw changes last_clear_time; from one redraw to
   the next the text shown for a slot only grows, and what is shown is
   always a prefix of texts. *)
C10_State ==
    (stream # "none" /\ redraw_times # <<>>) =>
        /\ Len(out) >= number_of_responses
        /\ \A k \in Slots : IsPrefix(out[k].text, texts[k])

C10_Step ==
    /\ IsIteration =>
         \A k \in Slots : texts'[k] = texts[k] \o ChunkAt(results, k)
    /\ IsRedraw =>
         /\ \A k \in Slots : out'[k].text = texts'[k]
         /\ redraw_times # <<>> =>
              \A k \in Slots : IsPrefix(out[k].text, out'[k].text)
    /\ last_clear_time' # last_clear_time => (IsRedraw \/ stream = "none")
    /\ texts' # texts => (IsIteration \/ stream = "none")

C10_Snapshot == []C10_State /\ [][C10_Step]_vars

C10_Witness ==
    /\ Len(redraw_times) = 2
    /\ Len(out) >= number_of_responses
    /\ Len(out[1].text) = 2
    /\ Len(texts[1]) = 2

====
